---- MODULE Spec2Model ----
(***************************************************************************)
(* PDF text extraction: the OCR-fallback pipeline of app.py and the        *)
(* extraction-and-classification pipeline of bpp.py.                       *)
(*                                                                         *)
(* A Python str is a TLA+ string; Optional[str] is a sequence of at most   *)
(* one string (<<>> is None).  The characters that occur are letters,      *)
(* digits, '-', '.', '=', and the whitespace characters space, tab and     *)
(* newline.                                                                *)
(***************************************************************************)
EXTENDS Integers, Sequences, FiniteSets, TLC

VARIABLES
    pc,                     \* position in the program being run
    pages,                  \* pdf_reader.pages: per page, what extract_text() does
    images,                 \* per page, what pytesseract.image_to_string() does
    page_num,               \* loop variable of the page loops
    text,                   \* app.py: extraction accumulator, then process()'s text
    full_text,              \* app.py: ocr_pdf_to_text accumulator
    convert_calls,          \* number of calls of convert_from_path
    ocr_calls,              \* number of calls of pytesseract.image_to_string
    raw_text,               \* bpp.py: extract_text_from_pdf accumulator / separate_content input
    blocks,                 \* separate_content: result of re.split
    i,                      \* separate_content: enumerate index (0-based)
    main_content,           \* separate_content: list of main blocks
    supplementary_content,  \* separate_content: list of supplementary blocks
    main_text,
    supplementary_text,
    final_text,             \* bpp.py: Optional result of extract_text_from_pdf
    saved,                  \* content of the output file, <<>> while not written
    block_in,               \* clean_text_block: the argument
    cleaned_once,           \* clean_text_block(block_in)
    cleaned_twice           \* clean_text_block(clean_text_block(block_in))

appVars == <<text, images, full_text, convert_calls, ocr_calls>>
sepVars == <<blocks, i, main_content, supplementary_content, main_text, supplementary_text>>
bppVars == <<raw_text, final_text>>
cleanVars == <<block_in, cleaned_once, cleaned_twice>>
vars == <<pc, pages, page_num, saved, appVars, sepVars, bppVars, cleanVars>>

(***************************************************************************)
(* Bounds of the model.                                                    *)
(***************************************************************************)
MaxPages == 3
MaxAppPages == 2
MaxSections == 2
MaxPageNo == 2
MaxCleanLines == 3

(***************************************************************************)
(* Characters and the str methods / regular-expression pieces used.        *)
(***************************************************************************)
Ch(s, k) == SubSeq(s, k, k)

IsSpace(c) == c \in {" ", "\t", "\n"}

IsDigit(c) == c \in {"0", "1", "2", "3", "4", "5", "6", "7", "8", "9"}

UpperCase == "ABCDEFGHIJKLMNOPQRSTUVWXYZ"

LowerCase == "abcdefghijklmnopqrstuvwxyz"

IsAlpha(c) == \E k \in 1..26 : c = Ch(UpperCase, k) \/ c = Ch(LowerCase, k)

LowerChar(c) ==
    IF \E k \in 1..26 : c = Ch(UpperCase, k)
    THEN Ch(LowerCase, CHOOSE k \in 1..26 : c = Ch(UpperCase, k))
    ELSE c

\* the concatenation of pieces[lo], ..., pieces[hi]
RECURSIVE ConcatAll(_, _, _)
ConcatAll(pieces, lo, hi) ==
    IF hi < lo THEN ""
    ELSE IF lo = hi THEN pieces[lo]
    ELSE LET mid == (lo + hi) \div 2
         IN  ConcatAll(pieces, lo, mid) \o ConcatAll(pieces, mid + 1, hi)

\* str.lower()
lower(s) == ConcatAll([k \in 1..Len(s) |-> LowerChar(Ch(s, k))], 1, Len(s))

RECURSIVE lstrip(_)
lstrip(s) == IF s # "" /\ IsSpace(Ch(s, 1)) THEN lstrip(Tail(s)) ELSE s

RECURSIVE rstrip(_)
rstrip(s) ==
    IF s # "" /\ IsSpace(Ch(s, Len(s))) THEN rstrip(SubSeq(s, 1, Len(s) - 1)) ELSE s

strip(s) == rstrip(lstrip(s))

\* str(n) for a non-negative integer
RECURSIVE str(_)
str(n) ==
    IF n < 10 THEN Ch("0123456789", n + 1)
    ELSE str(n \div 10) \o Ch("0123456789", (n % 10) + 1)

\* the first index q >= p at which s has no whitespace (Len(s)+1 if none): \s*
RECURSIVE SkipSpace(_, _)
SkipSpace(s, p) ==
    IF p <= Len(s) /\ IsSpace(Ch(s, p)) THEN SkipSpace(s, p + 1) ELSE p

\* the first index q >= p at which s has no digit: \d*
RECURSIVE SkipDigits(_, _)
SkipDigits(s, p) ==
    IF p <= Len(s) /\ IsDigit(Ch(s, p)) THEN SkipDigits(s, p + 1) ELSE p

\* the literal w occurs in s at index p
StartsAt(s, p, w) == p >= 1 /\ p + Len(w) - 1 <= Len(s) /\ SubSeq(s, p, p + Len(w) - 1) = w

\* the last index in lo..hi at which s has a newline, 0 if none
RECURSIVE LastNewline(_, _, _)
LastNewline(s, lo, hi) ==
    IF hi < lo THEN 0
    ELSE IF Ch(s, hi) = "\n" THEN hi
    ELSE LastNewline(s, lo, hi - 1)

RECURSIVE CountNewlines(_, _, _)
CountNewlines(s, lo, hi) ==
    IF hi < lo THEN 0
    ELSE (IF Ch(s, hi) = "\n" THEN 1 ELSE 0) + CountNewlines(s, lo, hi - 1)

\* the first index q >= p at which s has a newline, Len(s)+1 if none
RECURSIVE NextNewline(_, _)
NextNewline(s, p) ==
    IF p <= Len(s) /\ Ch(s, p) # "\n" THEN NextNewline(s, p + 1) ELSE p

\* str.split('\n')
RECURSIVE SplitLinesFrom(_, _)
SplitLinesFrom(s, start) ==
    LET p == NextNewline(s, start)
    IN  IF p > Len(s) THEN << SubSeq(s, start, Len(s)) >>
        ELSE << SubSeq(s, start, p - 1) >> \o SplitLinesFrom(s, p + 1)

split_lines(s) == SplitLinesFrom(s, 1)

\* sep.join(list)
RECURSIVE join(_, _)
join(sep, list) ==
    IF list = <<>> THEN ""
    ELSE IF Len(list) = 1 THEN list[1]
    ELSE list[1] \o sep \o join(sep, Tail(list))

\* str.count('\t')
CountTabs(s) == Cardinality({k \in 1..Len(s) : Ch(s, k) = "\t"})

\* Python truthiness of an Optional[str]: None and "" are falsy
Truthy(opt) == opt # <<>> /\ opt[1] # ""

(***************************************************************************)
(* bpp.py: clean_text_block                                                *)
(***************************************************************************)
\* re.sub(r'\n\s*\n\s*\n', '\n\n', text): a newline followed by a whitespace
\* run holding at least two more newlines is replaced, up to the last newline
\* of the run, by two newlines.
RECURSIVE CollapseBlankFrom(_, _)
CollapseBlankFrom(s, start) ==
    LET p == NextNewline(s, start)
        f == SkipSpace(s, p + 1)
    IN  IF p > Len(s) THEN SubSeq(s, start, Len(s))
        ELSE IF CountNewlines(s, p + 1, f - 1) >= 2
        THEN SubSeq(s, start, p - 1) \o "\n\n"
                \o CollapseBlankFrom(s, LastNewline(s, p + 1, f - 1) + 1)
        ELSE SubSeq(s, start, p) \o CollapseBlankFrom(s, p + 1)

CollapseBlankLines(s) == CollapseBlankFrom(s, 1)

\* re.sub(r'[ \t]+', ' ', text)
CollapseHorizontal(s) ==
    ConcatAll([k \in 1..Len(s) |->
                  IF Ch(s, k) \notin {" ", "\t"} THEN Ch(s, k)
                  ELSE IF k < Len(s) /\ Ch(s, k + 1) \in {" ", "\t"} THEN ""
                  ELSE " "],
              1, Len(s))

\* re.match(r'^\d+$', line)
IsPageNumber(line) == line # "" /\ SkipDigits(line, 1) = Len(line) + 1

\* re.match(r'^page\s+\d+', line.lower())
IsPageN(line) ==
    LET l == lower(line)
        d == SkipSpace(l, 5)
    IN  StartsAt(l, 1, "page") /\ d > 5 /\ d <= Len(l) /\ IsDigit(Ch(l, d))

\* the test of the loop body: "Skip likely headers/footers"
IsBoilerplateNoDigits(line) ==
    \/ Len(line) < 3
    \/ IsPageN(line)
    \/ lower(line) \in {"header", "footer"}

IsBoilerplate(line) ==
    \/ Len(line) < 3
    \/ IsPageNumber(line)
    \/ IsPageN(line)
    \/ lower(line) \in {"header", "footer"}

RECURSIVE CleanLines(_)
CleanLines(lines) ==
    IF lines = <<>> THEN <<>>
    ELSE LET line == strip(lines[1])
         IN  IF IsBoilerplate(line) THEN CleanLines(Tail(lines))
             ELSE <<line>> \o CleanLines(Tail(lines))

clean_text_block(t) ==
    IF t = "" THEN ""
    ELSE join("\n", CleanLines(split_lines(CollapseHorizontal(CollapseBlankLines(t)))))

(***************************************************************************)
(* bpp.py: is_supplementary_content                                        *)
(***************************************************************************)
\* (?i)^\s*<kw>\s+\d+.*$ searched in line
KeywordNumber(line, kw) ==
    LET l == lower(line)
        a == SkipSpace(l, 1)
        b == SkipSpace(l, a + Len(kw))
    IN  StartsAt(l, a, kw) /\ b > a + Len(kw) /\ b <= Len(l) /\ IsDigit(Ch(l, b))

\* (?i)^\s*appendix\s+[a-z\d]+.*$ searched in line
KeywordAlnum(line, kw) ==
    LET l == lower(line)
        a == SkipSpace(l, 1)
        b == SkipSpace(l, a + Len(kw))
    IN  /\ StartsAt(l, a, kw) /\ b > a + Len(kw) /\ b <= Len(l)
        /\ (IsDigit(Ch(l, b)) \/ IsAlpha(Ch(l, b)))

\* (?i)^\s*<word>\s*$ searched in line
SoleWord(line, words) == strip(lower(line)) \in words

\* some pattern of self.supplementary_patterns is found in line
MatchesSupplementaryPattern(line) ==
    \/ KeywordNumber(line, "table")
    \/ KeywordNumber(line, "figure")
    \/ KeywordNumber(line, "chart")
    \/ KeywordNumber(line, "diagram")
    \/ KeywordAlnum(line, "appendix")
    \/ SoleWord(line, {"reference", "references", "bibliography", "index", "glossary"})

\* re.search(r'\d+[\s\t]+\d+', line) or line.count('\t') > 2
IsTabularLine(line) ==
    \/ \E p \in 1..Len(line) :
          LET q == SkipSpace(line, p + 1)
          IN  IsDigit(Ch(line, p)) /\ q > p + 1 /\ q <= Len(line) /\ IsDigit(Ch(line, q))
    \/ CountTabs(line) > 2

\* the number of lines to check for a pattern: text_lines[:3]
header_scan_lines == 3

is_supplementary_content(text_block) ==
    LET text_lines == split_lines(strip(text_block))
        n == Len(text_lines)
        numeric_lines == Cardinality({k \in 1..n : IsTabularLine(text_lines[k])})
    IN  \/ \E k \in 1..n :
              k <= header_scan_lines /\ MatchesSupplementaryPattern(strip(text_lines[k]))
        \/ (n > 3 /\ numeric_lines * 10 > 3 * n)

(***************************************************************************)
(* bpp.py: separate_content                                                *)
(***************************************************************************)
\* The end (index of the last character) of a match of
\*   \n\s*---\s*Page\s+\d+\s*---\s*\n
\* that starts at index p of s, 0 if there is none.  Every quantifier is
\* followed by a character it cannot match, except the last \s*, which gives
\* back up to the last newline of its whitespace run.
MarkerMatchEnd(s, p) ==
    LET a == SkipSpace(s, p + 1)
        b == SkipSpace(s, a + 3)
        c == SkipSpace(s, b + 4)
        d == SkipDigits(s, c)
        e == SkipSpace(s, d)
        f == SkipSpace(s, e + 3)
    IN  IF /\ p <= Len(s) /\ Ch(s, p) = "\n"
           /\ StartsAt(s, a, "---")
           /\ StartsAt(s, b, "Page")
           /\ c > b + 4
           /\ d > c
           /\ StartsAt(s, e, "---")
        THEN LastNewline(s, e + 3, f - 1)
        ELSE 0

\* re.split(r'\n\s*---\s*Page\s+\d+\s*---\s*\n', text)
\* start: where the current block begins; from: where the search goes on
\* (a match begins with a newline)
RECURSIVE SplitFrom(_, _, _)
SplitFrom(s, start, from) ==
    LET p == NextNewline(s, from)
        e == MarkerMatchEnd(s, p)
    IN  IF p > Len(s) THEN << SubSeq(s, start, Len(s)) >>
        ELSE IF e = 0 THEN SplitFrom(s, start, p + 1)
        ELSE << SubSeq(s, start, p - 1) >> \o SplitFrom(s, e + 1, e + 1)

re_split(s) == SplitFrom(s, 1, 1)

\* re.search(r'Page\s+(\d+)', text) finds a match
HasPageRef(s) ==
    \E p \in 1..Len(s) :
        LET q == SkipSpace(s, p + 4)
        IN  StartsAt(s, p, "Page") /\ q > p + 4 /\ q <= Len(s) /\ IsDigit(Ch(s, q))

\* a variant that numbers the blocks from 2
BlockWithPageNumber(s, idx, block) ==
    IF idx > 0 /\ HasPageRef(s) THEN "\n--- Page " \o str(idx + 1) \o " ---\n" \o block
    ELSE block

\* "Add page marker back (except for first block)": the block of index idx
BlockWithMarker(s, idx, block) ==
    IF idx > 0 /\ HasPageRef(s) THEN "\n--- Page " \o str(idx) \o " ---\n" \o block
    ELSE block

\* '\n\n'.join(list).strip()
JoinBlocks(list) == strip(join("\n\n", list))

(***************************************************************************)
(* bpp.py: the assembly of the final text in extract_text_from_pdf         *)
(***************************************************************************)
\* the width of the banner lines: '='*60
BannerWidth == 60

\* c * n
Repeat(c, n) == ConcatAll([k \in 1..n |-> c], 1, n)

Banner ==
    "\n\n" \o Repeat("=", BannerWidth) \o "\nSUPPLEMENTARY CONTENT\n"
           \o Repeat("=", BannerWidth) \o "\n\n"

\* a variant that emits the banner whatever the supplementary content
AssembleAlways(main, supp) == main \o Banner \o supp

AssembleFinal(main, supp) == IF supp # "" THEN main \o Banner \o supp ELSE main

\* f"\n--- Page {page_num} ---\n"
PageMarker(n) == "\n--- Page " \o str(n) \o " ---\n"

\* list.append(block)
PrependBlock(list, b) == <<b>> \o list

AppendBlock(list, b) == Append(list, b)

(***************************************************************************)
(* app.py: process                                                         *)
(***************************************************************************)
\* a variant that always falls back
FallbackAlways(t) == TRUE

\* "if not text:" before the fallback to OCR
FallbackNeeded(t) == ~Truthy(t)

(***************************************************************************)
(* The inputs.  A page is what page.extract_text() does on it: return a    *)
(* text (ok) or raise.  An image is what image_to_string() does on it.     *)
(***************************************************************************)
Page(ok, t) == [ok |-> ok, text |-> t]

SeqsUpTo(S, lo, hi) == UNION {[1..n -> S] : n \in lo..hi}

AppPageSamples ==
    {Page(TRUE, "Intro text."), Page(TRUE, ""), Page(TRUE, " \n"), Page(FALSE, "")}

OcrSamples == {Page(TRUE, "Table 1"), Page(TRUE, ""), Page(FALSE, "")}

BppPageSamples ==
    { Page(TRUE, "Intro text."),
      Page(TRUE, "Table 1\n1 2\n3 4"),
      Page(TRUE, "1 2\n3 4\nIntro text."),
      Page(TRUE, "Intro text.\nIntro text.\nTable 1"),
      Page(TRUE, " \n"),
      Page(FALSE, "") }

SectionSamples == {"Intro text.", "Table 1\n1 2\n3 4", "ab", ""}

\* a stream of sections, each after a line "--- Page n ---"
TaggedStream(nums, secs) ==
    join("\n", [k \in 1..Len(secs) |-> "--- Page " \o str(nums[k]) \o " ---\n" \o secs[k]])

SepStreams ==
    {"", " \n"} \cup
    UNION { { prefix \o TaggedStream(nums, secs) :
                 prefix \in {"", "\n"},
                 nums \in [1..n -> 1..MaxPageNo],
                 secs \in [1..n -> SectionSamples] } : n \in 1..MaxSections }

CleanLineSamples ==
    {"Intro text.", "4", "123", "ab", "page 2", "Header", "footer", "  a \t b ", ""}

CleanInputs == {join("\n", ls) : ls \in SeqsUpTo(CleanLineSamples, 0, MaxCleanLines)}

(***************************************************************************)
(* Initial states.  The variables a program does not use keep these        *)
(* values.                                                                 *)
(***************************************************************************)
AppIdle ==
    /\ text = <<>> /\ images = <<>> /\ full_text = ""
    /\ convert_calls = 0 /\ ocr_calls = 0

SepIdle ==
    /\ blocks = <<>> /\ i = 0
    /\ main_content = <<>> /\ supplementary_content = <<>>
    /\ main_text = "" /\ supplementary_text = ""

CleanIdle == block_in = "" /\ cleaned_once = <<>> /\ cleaned_twice = <<>>

\* app.py: process() on a document
InitApp ==
    /\ pc = "a_extract"
    /\ \E n \in 0..MaxAppPages :
          /\ pages \in [1..n -> AppPageSamples]
          /\ images \in [1..n -> OcrSamples]
    /\ page_num = 1
    /\ text = <<"">> /\ full_text = ""
    /\ convert_calls = 0 /\ ocr_calls = 0
    /\ raw_text = "" /\ final_text = <<>> /\ saved = <<>>
    /\ SepIdle /\ CleanIdle

\* bpp.py: process() on a document
InitBpp ==
    /\ pc = "b_extract"
    /\ pages \in SeqsUpTo(BppPageSamples, 0, MaxPages)
    /\ page_num = 1
    /\ raw_text = "" /\ final_text = <<>> /\ saved = <<>>
    /\ AppIdle /\ SepIdle /\ CleanIdle

\* bpp.py: separate_content(text) on a page-marker-tagged stream
InitSep ==
    /\ pc = "sep_start"
    /\ raw_text \in SepStreams
    /\ pages = <<>> /\ page_num = 1
    /\ final_text = <<>> /\ saved = <<>>
    /\ AppIdle /\ SepIdle /\ CleanIdle

\* bpp.py: clean_text_block(text), applied twice
InitClean ==
    /\ pc = "c_start"
    /\ block_in \in CleanInputs
    /\ cleaned_once = <<>> /\ cleaned_twice = <<>>
    /\ pages = <<>> /\ page_num = 1
    /\ raw_text = "" /\ final_text = <<>> /\ saved = <<>>
    /\ AppIdle /\ SepIdle

(***************************************************************************)
(* app.py                                                                  *)
(***************************************************************************)
\* extract_text_from_pdf: one iteration of the page loop.  The loop has no
\* try of its own: an exception of page.extract_text() reaches the except
\* of the function, which returns None.
AppExtractPage ==
    /\ pc = "a_extract"
    /\ page_num <= Len(pages)
    /\ IF ~pages[page_num].ok
       THEN /\ text' = <<>>
            /\ pc' = "a_fallback"
            /\ UNCHANGED page_num
       ELSE /\ text' = IF strip(pages[page_num].text) # ""
                       THEN << text[1] \o PageMarker(page_num) \o pages[page_num].text >>
                       ELSE text
            /\ page_num' = page_num + 1
            /\ UNCHANGED pc
    /\ UNCHANGED <<pages, images, full_text, convert_calls, ocr_calls, saved,
                   sepVars, bppVars, cleanVars>>

\* extract_text_from_pdf: after the loop, the text or None
AppExtractReturn ==
    /\ pc = "a_extract"
    /\ page_num > Len(pages)
    /\ text' = IF strip(text[1]) # "" THEN text ELSE <<>>
    /\ pc' = "a_fallback"
    /\ UNCHANGED <<pages, images, page_num, full_text, convert_calls, ocr_calls, saved,
                   sepVars, bppVars, cleanVars>>

\* process: "if not text:" and, in ocr_pdf_to_text, convert_from_path, which
\* returns the images or raises
AppFallback ==
    /\ pc = "a_fallback"
    /\ IF FallbackNeeded(text)
       THEN /\ convert_calls' = convert_calls + 1
            /\ \E rendered \in BOOLEAN :
                  IF rendered /\ Len(images) > 0
                  THEN /\ pc' = "a_ocr"
                       /\ page_num' = 1
                       /\ full_text' = ""
                       /\ UNCHANGED text
                  ELSE /\ pc' = "a_decide"
                       /\ text' = <<>>
                       /\ UNCHANGED <<page_num, full_text>>
       ELSE /\ pc' = "a_decide"
            /\ UNCHANGED <<text, page_num, full_text, convert_calls>>
    /\ UNCHANGED <<pages, images, ocr_calls, saved, sepVars, bppVars, cleanVars>>

\* ocr_pdf_to_text: one iteration of the image loop.  An exception of
\* image_to_string reaches the except of the function, which returns None.
AppOcrPage ==
    /\ pc = "a_ocr"
    /\ page_num <= Len(images)
    /\ ocr_calls' = ocr_calls + 1
    /\ IF ~images[page_num].ok
       THEN /\ text' = <<>>
            /\ pc' = "a_decide"
            /\ UNCHANGED <<page_num, full_text>>
       ELSE /\ full_text' = IF strip(images[page_num].text) # ""
                            THEN full_text \o PageMarker(page_num) \o images[page_num].text
                            ELSE full_text
            /\ page_num' = page_num + 1
            /\ UNCHANGED <<pc, text>>
    /\ UNCHANGED <<pages, images, convert_calls, saved, sepVars, bppVars, cleanVars>>

\* ocr_pdf_to_text: after the loop, the text or None
AppOcrReturn ==
    /\ pc = "a_ocr"
    /\ page_num > Len(images)
    /\ text' = IF strip(full_text) # "" THEN <<full_text>> ELSE <<>>
    /\ pc' = "a_decide"
    /\ UNCHANGED <<pages, images, page_num, full_text, convert_calls, ocr_calls, saved,
                   sepVars, bppVars, cleanVars>>

\* process: "if not text: return False", else save_text_to_file, which
\* writes the file or fails
AppDecide ==
    /\ pc = "a_decide"
    /\ IF ~Truthy(text)
       THEN pc' = "failed" /\ UNCHANGED saved
       ELSE \E written \in BOOLEAN :
               IF written THEN pc' = "done" /\ saved' = text
               ELSE pc' = "failed" /\ UNCHANGED saved
    /\ UNCHANGED <<pages, page_num, appVars, sepVars, bppVars, cleanVars>>

NextApp ==
    \/ AppExtractPage
    \/ AppExtractReturn
    \/ AppFallback
    \/ AppOcrPage
    \/ AppOcrReturn
    \/ AppDecide

SpecApp == InitApp /\ [][NextApp]_vars

(***************************************************************************)
(* bpp.py                                                                  *)
(***************************************************************************)
\* extract_text_from_pdf: one iteration of the page loop; an exception of
\* page.extract_text() is caught in the loop, which goes on
BppExtractPage ==
    /\ pc = "b_extract"
    /\ page_num <= Len(pages)
    /\ raw_text' = IF pages[page_num].ok /\ strip(pages[page_num].text) # ""
                   THEN raw_text \o PageMarker(page_num) \o pages[page_num].text
                   ELSE raw_text
    /\ page_num' = page_num + 1
    /\ UNCHANGED <<pc, pages, final_text, saved, appVars, sepVars, cleanVars>>

\* extract_text_from_pdf: "if not raw_text.strip(): return None", else on
\* to separate_content(raw_text)
BppExtractEnd ==
    /\ pc = "b_extract"
    /\ page_num > Len(pages)
    /\ pc' = IF strip(raw_text) = "" THEN "b_process" ELSE "sep_start"
    /\ UNCHANGED <<pages, page_num, raw_text, final_text, saved, appVars, sepVars, cleanVars>>

\* separate_content: the early return, or the split into blocks
SepStart ==
    /\ pc = "sep_start"
    /\ IF strip(raw_text) = ""
       THEN /\ pc' = "sep_done"
            /\ main_text' = "" /\ supplementary_text' = ""
            /\ UNCHANGED <<blocks, i, main_content, supplementary_content>>
       ELSE /\ pc' = "sep_loop"
            /\ blocks' = re_split(raw_text)
            /\ i' = 0
            /\ main_content' = <<>> /\ supplementary_content' = <<>>
            /\ UNCHANGED <<main_text, supplementary_text>>
    /\ UNCHANGED <<pages, page_num, raw_text, final_text, saved, appVars, cleanVars>>

\* separate_content: one iteration of "for i, block in enumerate(blocks)"
SepBlock ==
    /\ pc = "sep_loop"
    /\ i < Len(blocks)
    /\ LET block == blocks[i + 1]
           cleaned_block == clean_text_block(BlockWithMarker(raw_text, i, block))
       IN  IF strip(block) = ""
           THEN UNCHANGED <<main_content, supplementary_content>>
           ELSE IF is_supplementary_content(cleaned_block)
           THEN /\ supplementary_content' = AppendBlock(supplementary_content, cleaned_block)
                /\ UNCHANGED main_content
           ELSE /\ main_content' = AppendBlock(main_content, cleaned_block)
                /\ UNCHANGED supplementary_content
    /\ i' = i + 1
    /\ UNCHANGED <<pc, blocks, main_text, supplementary_text>>
    /\ UNCHANGED <<pages, page_num, raw_text, final_text, saved, appVars, cleanVars>>

\* separate_content: the two joins and the return
SepJoin ==
    /\ pc = "sep_loop"
    /\ i = Len(blocks)
    /\ main_text' = JoinBlocks(main_content)
    /\ supplementary_text' = JoinBlocks(supplementary_content)
    /\ pc' = "sep_done"
    /\ UNCHANGED <<blocks, i, main_content, supplementary_content>>
    /\ UNCHANGED <<pages, page_num, raw_text, final_text, saved, appVars, cleanVars>>

\* extract_text_from_pdf: the final text
BppAssemble ==
    /\ pc = "sep_done"
    /\ final_text' = << AssembleFinal(main_text, supplementary_text) >>
    /\ pc' = "b_process"
    /\ UNCHANGED <<pages, page_num, raw_text, saved, appVars, sepVars, cleanVars>>

\* process: "if not text: return False", else save_text_to_file, which
\* writes the file or fails
BppProcess ==
    /\ pc = "b_process"
    /\ IF ~Truthy(final_text)
       THEN pc' = "failed" /\ UNCHANGED saved
       ELSE \E written \in BOOLEAN :
               IF written THEN pc' = "done" /\ saved' = final_text
               ELSE pc' = "failed" /\ UNCHANGED saved
    /\ UNCHANGED <<pages, page_num, raw_text, final_text, appVars, sepVars, cleanVars>>

NextBpp ==
    \/ BppExtractPage
    \/ BppExtractEnd
    \/ SepStart
    \/ SepBlock
    \/ SepJoin
    \/ BppAssemble
    \/ BppProcess

SpecBpp == InitBpp /\ [][NextBpp]_vars

NextSep ==
    \/ SepStart
    \/ SepBlock
    \/ SepJoin

SpecSep == InitSep /\ [][NextSep]_vars

\* clean_text_block(text)
CleanOnce ==
    /\ pc = "c_start"
    /\ cleaned_once' = << clean_text_block(block_in) >>
    /\ pc' = "c_once"
    /\ UNCHANGED <<block_in, cleaned_twice>>
    /\ UNCHANGED <<pages, page_num, saved, appVars, sepVars, bppVars>>

\* clean_text_block applied to its own result
CleanTwice ==
    /\ pc = "c_once"
    /\ cleaned_twice' = << clean_text_block(cleaned_once[1]) >>
    /\ pc' = "c_twice"
    /\ UNCHANGED <<block_in, cleaned_once>>
    /\ UNCHANGED <<pages, page_num, saved, appVars, sepVars, bppVars>>

NextClean ==
    \/ CleanOnce
    \/ CleanTwice

SpecClean == InitClean /\ [][NextClean]_vars

(***************************************************************************)
(* Claims about app.py                                                     *)
(***************************************************************************)
\* the tagged stream of a document in which a page that raises counts as a
\* page without text
RECURSIVE TaggedText(_, _)
TaggedText(ps, k) ==
    IF k = 0 THEN ""
    ELSE TaggedText(ps, k - 1) \o
         (IF ps[k].ok /\ strip(ps[k].text) # "" THEN PageMarker(k) \o ps[k].text ELSE "")

OptionalOf(t) == IF strip(t) # "" THEN <<t>> ELSE <<>>

AllPagesHaveText == \A k \in 1..Len(pages) : pages[k].ok /\ strip(pages[k].text) # ""

OcrNeverInvoked == convert_calls = 0 /\ ocr_calls = 0

\* C1, as stated: for every document in which every page yields
\* non-whitespace embedded text, the OCR fallback is never invoked and the
\* text that is saved is the directly extracted text.
C1_Original ==
    (pc \in {"a_extract", "a_fallback", "a_ocr", "a_decide", "done", "failed"}
        /\ AllPagesHaveText)
    => /\ OcrNeverInvoked
       /\ (pc = "done" => saved = <<TaggedText(pages, Len(pages))>>)

\* C1, amended: for every document with at least one page in which every
\* page yields non-whitespace embedded text, the OCR fallback is never
\* invoked and the text that is saved is the directly extracted text.
C1_NoOcrWhenEveryPageHasText ==
    (pc \in {"a_extract", "a_fallback", "a_ocr", "a_decide", "done", "failed"}
        /\ Len(pages) >= 1 /\ AllPagesHaveText)
    => /\ OcrNeverInvoked
       /\ (pc = "done" => saved = <<TaggedText(pages, Len(pages))>>)

C1_Witness ==
    /\ pc = "done" /\ Len(pages) >= 2 /\ AllPagesHaveText
    /\ saved = <<TaggedText(pages, Len(pages))>>
    /\ OcrNeverInvoked

\* C2: in extract_text_from_pdf (app.py and bpp.py) an exception raised by
\* page.extract_text() on one page is absorbed: that page contributes empty
\* text, the other pages are extracted in order, their text is kept in the
\* result and the document is not aborted.
C2_PageFailureAbsorbed ==
    /\ pc = "a_fallback" => text = OptionalOf(TaggedText(pages, Len(pages)))
    /\ pc = "sep_start" => raw_text = TaggedText(pages, Len(pages))

\* C3: when the OCR fallback runs, a failure of the OCR engine on one page
\* image contributes an empty string for that page only: OCR is run once on
\* every page, in page order, and the text recognised on the other pages is
\* returned.
C3_OcrFailureAbsorbed ==
    (pc = "a_decide" /\ ocr_calls > 0)
    => /\ ocr_calls = Len(images)
       /\ text = OptionalOf(TaggedText(images, Len(images)))


(***************************************************************************)
(* Claims about bpp.py                                                     *)
(***************************************************************************)
\* the blocks among the first n of the split that are not skipped as blank,
\* by 0-based index
Processed(bl, n) == {k \in 0..(n - 1) : strip(bl[k + 1]) # ""}

\* what block k is once separate_content has marked and cleaned it
CleanedBlock(k) == clean_text_block(BlockWithMarker(raw_text, k, blocks[k + 1]))

\* the cleaned blocks with index in S, by increasing index
RECURSIVE InSourceOrder(_, _, _)
InSourceOrder(S, k, n) ==
    IF k >= n THEN <<>>
    ELSE (IF k \in S THEN <<CleanedBlock(k)>> ELSE <<>>) \o InSourceOrder(S, k + 1, n)

\* the least index q >= p at which sub occurs in t, 0 if there is none
FindFrom(t, sub, p) ==
    LET Q == {q \in p..(Len(t) + 1) : StartsAt(t, q, sub)}
    IN  IF Q = {} THEN 0 ELSE CHOOSE q \in Q : \A r \in Q : q <= r

\* the texts of list occur in t one after the other
RECURSIVE OccurInOrder(_, _, _)
OccurInOrder(list, t, p) ==
    IF list = <<>> THEN TRUE
    ELSE LET q == FindFrom(t, list[1], p)
         IN  q > 0 /\ OccurInOrder(Tail(list), t, q + Len(list[1]))

\* C5: in separate_content every non-whitespace section is placed in exactly
\* one of the main list and the supplementary list; the Main blocks appear in
\* main_text in their source order and the Supplementary blocks appear in
\* supplementary_text in their source order.
C5_OrderPreserved ==
    (pc \in {"sep_loop", "sep_done"})
    => LET P == Processed(blocks, i)
           S == {k \in P : is_supplementary_content(CleanedBlock(k))}
           M == P \ S
       IN  /\ main_content = InSourceOrder(M, 0, i)
           /\ supplementary_content = InSourceOrder(S, 0, i)
           /\ Len(main_content) + Len(supplementary_content) = Cardinality(P)
           /\ pc = "sep_done" =>
                 /\ OccurInOrder(main_content, main_text, 1)
                 /\ OccurInOrder(supplementary_content, supplementary_text, 1)

C5_Witness ==
    /\ pc = "sep_done"
    /\ Len(main_content) = 2 /\ Len(supplementary_content) = 1
    /\ Len(blocks) = 4
    /\ is_supplementary_content(CleanedBlock(2))
    /\ main_content = <<CleanedBlock(1), CleanedBlock(3)>>

EqLine == "============================================================"

CountLines(lines, l) == Cardinality({k \in 1..Len(lines) : lines[k] = l})

\* C6: the final text is main_text followed, if and only if
\* supplementary_text is non-empty, by a line of 60 '=', the line
\* 'SUPPLEMENTARY CONTENT', another line of 60 '=' and supplementary_text;
\* with no Supplementary block there is no banner and the output is
\* main_text; with no Main block the output is the banner and the
\* supplementary content; the banner occurs at most once and no Main block
\* follows it.
C6_Assembly ==
    (pc \in {"b_process", "done", "failed"} /\ final_text # <<>>)
    => LET out == final_text[1]
           lines == split_lines(out)
           n == Len(split_lines(main_text))
       IN  /\ (supplementary_content = <<>>) <=> (supplementary_text = "")
           /\ main_content = <<>> => main_text = ""
           /\ CountLines(lines, "SUPPLEMENTARY CONTENT")
                 = (IF supplementary_content = <<>> THEN 0 ELSE 1)
           /\ supplementary_content = <<>> => out = main_text
           /\ supplementary_content # <<>> =>
                 /\ lines = split_lines(main_text)
                               \o <<"", EqLine, "SUPPLEMENTARY CONTENT", EqLine, "">>
                               \o split_lines(supplementary_text)
                 /\ \A k \in 1..Len(main_content) :
                       FindFrom(join("\n", SubSeq(lines, n + 1, Len(lines))),
                                main_content[k], 1) = 0

C6_Witness ==
    /\ pc = "done"
    /\ saved = final_text
    /\ Len(main_content) >= 1 /\ Len(supplementary_content) >= 1

\* the page-marker line of number n
MarkerLine(n) == "--- Page " \o str(n) \o " ---"

\* line is a page-marker line
IsMarkerLine(line) ==
    LET s == "\n" \o line \o "\n" IN MarkerMatchEnd(s, 1) = Len(s)

NoMarkerLine(t) == \A k \in 1..Len(split_lines(t)) : ~IsMarkerLine(split_lines(t)[k])

ExampleStream == "--- Page 1 ---\nIntro text.\n--- Page 2 ---\nTable 1\n1 2\n3 4"

MarkedSection(segs, k) ==
    LET sec == clean_text_block(segs[k + 1])
    IN  IF k = 0 THEN sec
        ELSE IF sec = "" THEN MarkerLine(k)
        ELSE MarkerLine(k) \o "\n" \o sec

RECURSIVE MarkedSections(_, _, _)
MarkedSections(segs, S, k) ==
    IF k >= Len(segs) THEN <<>>
    ELSE (IF k \in S THEN <<MarkedSection(segs, k)>> ELSE <<>>)
            \o MarkedSections(segs, S, k + 1)

SectionLines(k) ==
    LET sec == clean_text_block(blocks[k + 1])
    IN  IF sec = "" THEN <<>> ELSE split_lines(sec)

\* one of the first three lines of section k matches a supplementary pattern
MarkerInFirstThree(k) ==
    \E n \in 1..Len(SectionLines(k)) :
        n <= 3 /\ MatchesSupplementaryPattern(SectionLines(k)[n])

\* a line of section k matches a supplementary pattern, none of the first three
MarkerOnlyLater(k) ==
    /\ ~MarkerInFirstThree(k)
    /\ \E n \in 1..Len(SectionLines(k)) : MatchesSupplementaryPattern(SectionLines(k)[n])

\* section k has more than 3 lines, more than 0.3 of them tabular
DenseSection(k) ==
    LET lines == SectionLines(k)
        tabular == Cardinality({n \in 1..Len(lines) : IsTabularLine(lines[n])})
    IN  Len(lines) > 3 /\ tabular * 10 > 3 * Len(lines)

InList(list, b) == \E n \in 1..Len(list) : list[n] = b

ClassifiedSupplementary(k) ==
    InList(supplementary_content, CleanedBlock(k)) /\ ~InList(main_content, CleanedBlock(k))

ClassifiedMain(k) ==
    InList(main_content, CleanedBlock(k)) /\ ~InList(supplementary_content, CleanedBlock(k))

\* C7: a section processed by separate_content one of whose first three
\* non-empty lines matches a supplementary-indicator pattern is classified
\* Supplementary, whatever its tabular density; a marker that first appears
\* on a later line does not trigger this rule (the section is then Main
\* unless it is dense).
C7_MarkerInFirstThreeLines ==
    pc = "sep_done"
    => \A k \in Processed(blocks, Len(blocks)) :
          /\ MarkerInFirstThree(k) => ClassifiedSupplementary(k)
          /\ (MarkerOnlyLater(k) /\ ~DenseSection(k)) => ClassifiedMain(k)

\* C8: a section processed by separate_content whose first three lines carry
\* no marker is classified Supplementary if and only if it has more than 3
\* lines and tabular lines / lines > 0.3; otherwise it is Main.  A section of
\* 3 or fewer lines without a marker is always Main.
C8_DensityRule ==
    pc = "sep_done"
    => \A k \in Processed(blocks, Len(blocks)) :
          ~MarkerInFirstThree(k) =>
             /\ ClassifiedSupplementary(k) <=> DenseSection(k)
             /\ ClassifiedMain(k) <=> ~DenseSection(k)
             /\ Len(SectionLines(k)) <= 3 => ClassifiedMain(k)

\* C10: a line '--- Page N ---' attached to a block of the output carries the
\* 1-based index N of the PDF page the text of the block was extracted from,
\* also when earlier pages contributed no text.
C10_MarkerIsSourcePage ==
    pc = "sep_done"
    => \A k \in Processed(blocks, Len(blocks)) :
          k > 0 =>
             \E n \in 1..Len(pages) :
                /\ pages[n].ok
                /\ blocks[k + 1] = pages[n].text
                /\ split_lines(CleanedBlock(k))[1] = MarkerLine(n)

(***************************************************************************)
(* Claims about clean_text_block                                           *)
(***************************************************************************)
PurelyNumeric(line) == line # "" /\ \A k \in 1..Len(line) : IsDigit(Ch(line, k))

StartsWithPageN(line) ==
    \E d \in 6..Len(line) :
        /\ lower(SubSeq(line, 1, 4)) = "page"
        /\ \A k \in 5..(d - 1) : IsSpace(Ch(line, k))
        /\ IsDigit(Ch(line, d))

NoBoilerplateLine(t) ==
    t = "" \/
    \A k \in 1..Len(split_lines(t)) :
        LET line == split_lines(t)[k]
        IN  /\ Len(line) >= 3
            /\ ~PurelyNumeric(line)
            /\ ~StartsWithPageN(line)
            /\ lower(line) \notin {"header", "footer"}

\* C9: clean_text_block(clean_text_block(t)) = clean_text_block(t), and the
\* result of clean_text_block has no line shorter than 3 characters, purely
\* numeric, starting with 'page N' or equal to 'header' or 'footer'
\* whatever the case.
C9_CleanIdempotent ==
    /\ pc = "c_twice" => cleaned_twice = cleaned_once
    /\ pc \in {"c_once", "c_twice"} => NoBoilerplateLine(cleaned_once[1])

C9_Witness ==
    /\ pc = "c_twice"
    /\ block_in = "Intro text.\n4\n  a \t b "
    /\ cleaned_once = <<"Intro text.\na b">>
    /\ cleaned_twice = cleaned_once

====
